---- MODULE Spec2Model ----
(***************************************************************************)
(* The B-tree multiset of vel_data_structures/BTree.py together with the   *)
(* sorted-list primitive of List_Heap.py that stores a node's keys and a   *)
(* node's children.                                                        *)
(*                                                                         *)
(* A node is the record [num_list |-> keys, children |-> nodes] and the    *)
(* tree is the nested value reachable from root.  A node reference (the    *)
(* entries of visited_list, the object compared with "is") is the path of  *)
(* child positions leading from the root to the node; positions are        *)
(* 1-based as TLA+ sequences are, Python indices are 0-based and the       *)
(* operators that return a Python index say so.  Equality and ordering of  *)
(* nodes (dataclass eq/order) are structural, as in the source.            *)
(***************************************************************************)
EXTENDS Integers, Sequences, FiniteSets, TLC

\* ---------------------------------------------------------------- bounds
\* the items are 1..MaxVal; at most MaxAdds add calls return
MaxVal == 2
MaxAdds == 10
\* the round trip of distinct items uses the items 1..MaxItems
MaxItems == 5
\* the tree that is iterated has had at most MaxIterAdds add calls
MaxIterAdds == 4
\* a second traversal or a membership test starts only while the loop has
\* been handed fewer than MaxGot items
MaxGot == 3
\* a List_Heap used on its own holds items of 1..MaxHeapVal, at most
\* MaxHeapLen of them
MaxHeapVal == 3
MaxHeapLen == 4

Values == 1..MaxVal
\* the arguments b tried for BTree(b): one below 2, then 2 and the default 3
Orders == {1, 2, 3}

\* ------------------------------------------------------ program constants
\* BTree._b, the class attribute every instance reads
_b == 3
\* the value of a function that falls off its end without a return
NoneIdx == -1

VARIABLES
    pc,       \* "start" before BTree(...) has run, "ready" once it returned
    root,     \* BTree._root
    n,        \* BTree._n
    err,      \* how the last call ended: "none" or the exception it raised
    order,    \* the argument b the constructor was called with
    bag,      \* reference multiset: +1 per add(x), -1 per remove(x) that returned
    adds,     \* number of add calls that returned
    removes,  \* number of remove calls that returned
    last,     \* the last call: [op |-> ..., arg |-> ...]
    stack,       \* BTree.stack, set by __iter__ and advanced by __next__
    discovered,  \* BTree.discovered
    phase,    \* the loop that iterates the tree: "idle", "iterating", "done"
    got,      \* the items that loop has been handed so far
    item_list,   \* List_Heap.item_list of a heap used on its own
    min,         \* List_Heap.min of that heap
    ret       \* the value the last call on that heap returned

treeVars == <<pc, root, n, err, order, bag, adds, removes, last>>
iterVars == <<stack, discovered, phase, got>>
heapVars == <<item_list, min, ret>>
vars == <<treeVars, iterVars, heapVars>>

\* ------------------------------------------------------- sequence helpers
SetMin(S) == CHOOSE x \in S : \A y \in S : x <= y
SetMax(S) == CHOOSE x \in S : \A y \in S : y <= x
Last(s) == s[Len(s)]
Front(s) == SubSeq(s, 1, Len(s) - 1)

\* list.pop(i) / list.insert(i, x) with i a 0-based Python index in range
ListPopAt(l, i) == SubSeq(l, 1, i) \o SubSeq(l, i + 2, Len(l))
ListInsertAt(l, i, x) == SubSeq(l, 1, i) \o <<x>> \o SubSeq(l, i + 1, Len(l))

\* list.index(item): 0-based position of the first element equal to item
ListIndex(l, item) ==
    LET S == {i \in 1..Len(l) : l[i] = item}
    IN IF S = {} THEN NoneIdx ELSE SetMin(S) - 1

\* list.remove(item): drop the first element equal to item
ListRemove(l, item) == ListPopAt(l, ListIndex(l, item))

\* ------------------------------------------- comparisons (ints and nodes)
IntLt(a, b) == a < b
IntLe(a, b) == a <= b

\* list.__lt__ / list.__le__ on lists of ints: the first unequal pair decides,
\* otherwise the lengths do
ListLtInt(a, b) ==
    LET m == IF Len(a) < Len(b) THEN Len(a) ELSE Len(b)
        D == {i \in 1..m : a[i] # b[i]}
    IN IF D = {} THEN Len(a) < Len(b) ELSE a[SetMin(D)] < b[SetMin(D)]

ListLeInt(a, b) ==
    LET m == IF Len(a) < Len(b) THEN Len(a) ELSE Len(b)
        D == {i \in 1..m : a[i] # b[i]}
    IN IF D = {} THEN Len(a) <= Len(b) ELSE a[SetMin(D)] <= b[SetMin(D)]

RECURSIVE NodeLt(_, _)
RECURSIVE NodeLe(_, _)

\* List_Heap.__lt__ / __le__ on the children lists (lists of _Node)
ListLtNode(a, b) ==
    LET m == IF Len(a) < Len(b) THEN Len(a) ELSE Len(b)
        D == {i \in 1..m : a[i] # b[i]}
    IN IF D = {} THEN Len(a) < Len(b) ELSE NodeLt(a[SetMin(D)], b[SetMin(D)])

ListLeNode(a, b) ==
    LET m == IF Len(a) < Len(b) THEN Len(a) ELSE Len(b)
        D == {i \in 1..m : a[i] # b[i]}
    IN IF D = {} THEN Len(a) <= Len(b) ELSE NodeLe(a[SetMin(D)], b[SetMin(D)])

\* _Node.__lt__ / __le__ generated by @dataclass(order=True): the tuples
\* (num_list, children) are compared, the first unequal field decides
NodeLt(x, y) ==
    IF x.num_list # y.num_list THEN ListLtInt(x.num_list, y.num_list)
    ELSE IF x.children # y.children THEN ListLtNode(x.children, y.children)
    ELSE FALSE

NodeLe(x, y) ==
    IF x.num_list # y.num_list THEN ListLeInt(x.num_list, y.num_list)
    ELSE IF x.children # y.children THEN ListLeNode(x.children, y.children)
    ELSE TRUE

\* ------------------------------------------------------------ List_Heap.py
\* a < b and a <= b as Python dispatches them on the operands' type: int
\* comparison for keys, _Node.__lt__ / __le__ for children (ofNodes)
PyLt(a, b, ofNodes) == IF ofNodes THEN NodeLt(a, b) ELSE IntLt(a, b)
PyLe(a, b, ofNodes) == IF ofNodes THEN NodeLe(a, b) ELSE IntLe(a, b)

\* get_insertion_index whose scan of the middle runs upwards and so returns
\* at the first place that fits, not the last
get_insertion_index_first(item, l, reverse, ofNodes) ==
    IF Len(l) = 0 THEN 0
    ELSE IF reverse THEN
        IF PyLe(item, l[Len(l)], ofNodes) THEN Len(l)
        ELSE IF PyLt(l[1], item, ofNodes) THEN 0
        ELSE LET S == {i \in 0..(Len(l) - 2) :
                          PyLe(item, l[i + 1], ofNodes) /\ PyLe(l[i + 2], item, ofNodes)}
             IN IF S = {} THEN NoneIdx ELSE SetMin(S) + 1
    ELSE
        IF PyLt(item, l[1], ofNodes) THEN 0
        ELSE IF PyLe(l[Len(l)], item, ofNodes) THEN Len(l)
        ELSE LET S == {i \in 0..(Len(l) - 2) :
                          PyLe(l[i + 1], item, ofNodes) /\ PyLe(item, l[i + 2], ofNodes)}
             IN IF S = {} THEN NoneIdx ELSE SetMin(S) + 1

\* get_insertion_index(item, l, reverse): a 0-based index, or NoneIdx when
\* the scan of the middle finds no place.  In the scan the left comparison is
\* false at i = len(l) - 1 (the test before it has failed), so l[i + 1] is
\* read for i <= len(l) - 2 only.
get_insertion_index(item, l, reverse, ofNodes) ==
    IF Len(l) = 0 THEN 0
    ELSE IF reverse THEN
        IF PyLe(item, l[Len(l)], ofNodes) THEN Len(l)
        ELSE IF PyLt(l[1], item, ofNodes) THEN 0
        ELSE LET S == {i \in 0..(Len(l) - 2) :
                          PyLe(item, l[i + 1], ofNodes) /\ PyLe(l[i + 2], item, ofNodes)}
             IN IF S = {} THEN NoneIdx ELSE SetMax(S) + 1
    ELSE
        IF PyLt(item, l[1], ofNodes) THEN 0
        ELSE IF PyLe(l[Len(l)], item, ofNodes) THEN Len(l)
        ELSE LET S == {i \in 0..(Len(l) - 2) :
                          PyLe(l[i + 1], item, ofNodes) /\ PyLe(item, l[i + 2], ofNodes)}
             IN IF S = {} THEN NoneIdx ELSE SetMax(S) + 1

\* KeyIndex that resolves ties to the left: the number of keys below item
KeyIndexLeft(item, l) == Cardinality({i \in 1..Len(l) : l[i] < item})

\* the index a node's num_list (List_Heap(min=False)) gives an int key
KeyIndex(item, l) == get_insertion_index(item, l, FALSE, FALSE)

\* the index a node's children (List_Heap(min=False)) gives a child node
ChildIndex(child, l) == get_insertion_index(child, l, FALSE, TRUE)

\* List_Heap.__contains__, the min=False branch: binary search on [start, end)
RECURSIVE BinarySearch(_, _, _, _)
BinarySearch(l, item, start, end) ==
    IF ~(start < end) THEN FALSE
    ELSE LET mid == (start + end) \div 2
         IN IF l[mid + 1] = item THEN TRUE
            ELSE IF item < l[mid + 1] THEN BinarySearch(l, item, start, mid)
            ELSE BinarySearch(l, item, mid + 1, end)

ListHeapContains(l, item) ==
    IF Len(l) = 0 THEN FALSE
    ELSE IF item < l[1] \/ l[Len(l)] < item THEN FALSE
    ELSE BinarySearch(l, item, 0, Len(l))

\* ------------------------------------------------------------------ _Node
EmptyNode == [num_list |-> <<>>, children |-> <<>>]

is_leaf(nd) == Len(nd.children) = 0
is_under_fertile(nd) == Len(nd.children) < Len(nd.num_list) + 1

\* _Node.add / _Node._add_child: List_Heap.insert, i.e. insert_into_list at
\* the index get_insertion_index returns (the callers test for NoneIdx)
NodeAdd(nd, item) ==
    [nd EXCEPT !.num_list = ListInsertAt(@, KeyIndex(item, @), item)]

NodeAddChild(nd, child) ==
    [nd EXCEPT !.children = ListInsertAt(@, ChildIndex(child, @), child)]

\* ------------------------------------------------------- node references
RECURSIVE NodeAt(_, _)
NodeAt(t, p) == IF p = <<>> THEN t ELSE NodeAt(t.children[p[1]], Tail(p))

RECURSIVE SetAt(_, _, _)
SetAt(t, p, nd) ==
    IF p = <<>> THEN nd
    ELSE [t EXCEPT !.children[p[1]] = SetAt(@, Tail(p), nd)]

\* ------------------------------------------------------- BTree._rebalance
\* The calls below thread the record [root, vl, sib, exc]: the tree, the
\* visited_list (a list of node references, root first), whether the local
\* name sibling is bound, and the exception raised ("none" while running).
\* An iteration that raises keeps the tree it started with.  Intermediate
\* values are passed on as operator arguments, one operator per stage.
Running(t, vl) == [root |-> t, vl |-> vl, sib |-> FALSE, exc |-> "none"]
Raise(s, e) == [s EXCEPT !.exc = e]
Halves(curr, new, e) == [curr |-> curr, new |-> new, exc |-> e]
Parent(par, e) == [parent |-> par, exc |-> e]

\* for i in range(k): new_node.add(curr.pop())
RECURSIVE SplitMoveKeys(_, _, _)
SplitMoveKeys(curr, new, k) ==
    IF k = 0 THEN Halves(curr, new, "none")
    ELSE IF Len(curr.num_list) = 0 THEN Halves(curr, new, "EmptyPop")
    ELSE IF KeyIndex(Last(curr.num_list), new.num_list) = NoneIdx
         THEN Halves(curr, new, "TypeError")
    ELSE SplitMoveKeys([curr EXCEPT !.num_list = Front(@)],
                       NodeAdd(new, Last(curr.num_list)), k - 1)

\* while new_node.is_under_fertile(): new_node._add_child(curr._pop_child())
RECURSIVE SplitMoveChildren(_, _)
SplitMoveChildren(curr, new) ==
    IF ~is_under_fertile(new) THEN Halves(curr, new, "none")
    ELSE IF Len(curr.children) = 0 THEN Halves(curr, new, "EmptyPop")
    ELSE IF ChildIndex(Last(curr.children), new.children) = NoneIdx
         THEN Halves(curr, new, "TypeError")
    ELSE SplitMoveChildren([curr EXCEPT !.children = Front(@)],
                           NodeAddChild(new, Last(curr.children)))

\* if not curr.is_leaf(): the child moving loop, on the halves mk the key
\* moving loop left
SplitChildren(mk) ==
    IF mk.exc # "none" \/ is_leaf(mk.curr) THEN mk
    ELSE SplitMoveChildren(mk.curr, mk.new)

\* SplitHalves without the "if not curr.is_leaf()" block: the new sibling of
\* an internal node gets keys but no children
SplitHalvesKeysOnly(curr) == SplitMoveKeys(curr, EmptyNode, _b \div 2)

\* the part of one split iteration that works on curr and new_node alone:
\* the top _b // 2 keys move, then the trailing children if curr is internal
SplitHalves(curr) == SplitChildren(SplitMoveKeys(curr, EmptyNode, _b \div 2))

\* AttachSibling that leaves new_node out of the parent
AttachSiblingDropped(par2, new) == Parent(par2, "none")

\* parent._add_child(new_node)
AttachSibling(par2, new) ==
    IF ChildIndex(new, par2.children) = NoneIdx THEN Parent(par2, "TypeError")
    ELSE Parent(NodeAddChild(par2, new), "none")

\* parent.add(median), then the sibling
PromoteInto(par1, median, new) ==
    IF KeyIndex(median, par1.num_list) = NoneIdx THEN Parent(par1, "TypeError")
    ELSE AttachSibling(NodeAdd(par1, median), new)

\* SplitPromote with curr.pop(0): the smallest key of curr goes up
SplitPromoteFirst(parent, a, curr, new) ==
    IF Len(curr.num_list) = 0 THEN Parent(parent, "EmptyPop")
    ELSE PromoteInto(IF a = 0
                     THEN [parent EXCEPT !.children = <<[curr EXCEPT !.num_list = Tail(@)]>>]
                     ELSE [parent EXCEPT !.children[a] = [curr EXCEPT !.num_list = Tail(@)]],
                     Head(curr.num_list), new)

\* parent.add(curr.pop()); parent._add_child(new_node), where curr is the
\* child at position a of parent (a = 0: parent is the fresh root, which has
\* just been given curr as its only child)
SplitPromote(parent, a, curr, new) ==
    IF Len(curr.num_list) = 0 THEN Parent(parent, "EmptyPop")
    ELSE PromoteInto(IF a = 0
                     THEN [parent EXCEPT !.children = <<[curr EXCEPT !.num_list = Front(@)]>>]
                     ELSE [parent EXCEPT !.children[a] = [curr EXCEPT !.num_list = Front(@)]],
                     Last(curr.num_list), new)

\* SplitStepDone without visited_list.pop()
SplitStepDoneNoPop(s, pp, pr, isRoot) ==
    IF pr.exc # "none" THEN Raise(s, pr.exc)
    ELSE [s EXCEPT !.root = IF isRoot THEN pr.parent ELSE SetAt(s.root, pp, pr.parent),
                   !.exc = IF Len(pr.parent.children) # Len(pr.parent.num_list) + 1
                           THEN "ParentRatio" ELSE "none"]

\* visited_list.pop() and "if len(parent.children) != len(parent) + 1: raise";
\* pr is the parent after the promotion, pp its reference
SplitStepDone(s, pp, pr, isRoot) ==
    IF pr.exc # "none" THEN Raise(s, pr.exc)
    ELSE [s EXCEPT !.root = IF isRoot THEN pr.parent ELSE SetAt(s.root, pp, pr.parent),
                   !.vl = Front(@),
                   !.exc = IF Len(pr.parent.children) # Len(pr.parent.num_list) + 1
                           THEN "ParentRatio" ELSE "none"]

\* the choice of parent: a new root when curr is self._root, else
\* visited_list[-2]; h holds curr and new_node after the moves
SplitStepHalved(s, h) ==
    IF h.exc # "none" THEN Raise(s, h.exc)
    ELSE IF Last(s.vl) = <<>>
         THEN SplitStepDone(s, <<>>, SplitPromote(EmptyNode, 0, h.curr, h.new), TRUE)
    ELSE IF Len(s.vl) < 2 THEN Raise(s, "IndexError")
    ELSE SplitStepDone(s, s.vl[Len(s.vl) - 1],
                       SplitPromote(NodeAt(s.root, s.vl[Len(s.vl) - 1]),
                                    Last(Last(s.vl)), h.curr, h.new),
                       FALSE)

\* one iteration of   while visited_list and len(visited_list[-1]) > self._b
SplitStep(s) == SplitStepHalved(s, SplitHalves(NodeAt(s.root, Last(s.vl))))

RECURSIVE SplitLoop(_)
SplitLoop(s) ==
    IF s.exc # "none" \/ Len(s.vl) = 0 THEN s
    ELSE IF Len(NodeAt(s.root, Last(s.vl)).num_list) > _b THEN SplitLoop(SplitStep(s))
    ELSE s

\* The fix loop works on the parent record: curr is its child at position a
\* (the node visited_list[-1] refers to), ci is the position
\* parent.children.index(curr) finds (the first child EQUAL to curr), and the
\* sibling is the child at position si.  All positions are 1-based.

\* while not sibling.is_leaf() and curr.is_under_fertile():
\*     curr._add_child(sibling._pop_child())        (fromEnd)
\*     curr._add_child(sibling._pop_child(0))       (~fromEnd)
RECURSIVE BorrowChildren(_, _, _, _)
BorrowChildren(ch, si, a, fromEnd) ==
    IF is_leaf(ch[si]) \/ ~is_under_fertile(ch[a]) THEN [ch |-> ch, exc |-> "none"]
    ELSE LET c   == IF fromEnd THEN Last(ch[si].children) ELSE Head(ch[si].children)
             ch1 == [ch EXCEPT ![si].children = IF fromEnd THEN Front(@) ELSE Tail(@)]
         IN IF ChildIndex(c, ch1[a].children) = NoneIdx
            THEN [ch |-> ch, exc |-> "TypeError"]
            ELSE BorrowChildren([ch1 EXCEPT ![a] = NodeAddChild(@, c)], si, a, fromEnd)

\* MergeChildren without its loop: the emptied node keeps its child
MergeChildrenNone(ch, si, a) == [ch |-> ch, exc |-> "none"]

\* while not sibling.is_leaf() and sibling.is_under_fertile():
\*     sibling._add_child(curr._pop_child())
RECURSIVE MergeChildren(_, _, _)
MergeChildren(ch, si, a) ==
    IF is_leaf(ch[si]) \/ ~is_under_fertile(ch[si]) THEN [ch |-> ch, exc |-> "none"]
    ELSE IF Len(ch[a].children) = 0 THEN [ch |-> ch, exc |-> "EmptyPop"]
    ELSE LET c   == Last(ch[a].children)
             ch1 == [ch EXCEPT ![a].children = Front(@)]
         IN IF ChildIndex(c, ch1[si].children) = NoneIdx
            THEN [ch |-> ch, exc |-> "TypeError"]
            ELSE MergeChildren([ch1 EXCEPT ![si] = NodeAddChild(@, c)], si, a)

\* "If we can take from the left sibling" / "... from the right sibling"
CanBorrowLeft(par, ci) == ci > 1 /\ Len(par.children[ci - 1].num_list) > 1
CanBorrowRight(par, ci) ==
    ci - 1 < Len(par.num_list) /\ Len(par.children[ci + 1].num_list) > 1

\* TakeFromSibling that takes the key at the other end of the sibling
TakeFromSiblingOtherEnd(par1, si, fromEnd) ==
    NodeAdd([par1 EXCEPT !.children[si].num_list = IF fromEnd THEN Tail(@) ELSE Front(@)],
            IF fromEnd THEN Head(par1.children[si].num_list)
            ELSE Last(par1.children[si].num_list))

\* parent.add(sibling.pop()) (fromEnd) / parent.add(sibling.pop(0))
TakeFromSibling(par1, si, fromEnd) ==
    NodeAdd([par1 EXCEPT !.children[si].num_list = IF fromEnd THEN Front(@) ELSE Tail(@)],
            IF fromEnd THEN Last(par1.children[si].num_list)
            ELSE Head(par1.children[si].num_list))

\* the parent with the children list the borrowing loop left
BorrowResult(par2, mv) == Parent([par2 EXCEPT !.children = mv.ch], mv.exc)
BorrowFinish(par2, si, a, fromEnd) ==
    BorrowResult(par2, BorrowChildren(par2.children, si, a, fromEnd))

\* curr.add(parent.pop(curr_index - 1)); parent.add(sibling.pop()); children
BorrowLeft(par, a, ci) ==
    IF ci - 1 > Len(par.num_list) THEN Parent(par, "IndexError")
    ELSE BorrowFinish(
            TakeFromSibling([par EXCEPT !.num_list = ListPopAt(@, ci - 2),
                                        !.children[a] = NodeAdd(@, par.num_list[ci - 1])],
                            ci - 1, TRUE),
            ci - 1, a, TRUE)

\* curr.add(parent.pop(curr_index)); parent.add(sibling.pop(0)); children
BorrowRight(par, a, ci) ==
    BorrowFinish(
        TakeFromSibling([par EXCEPT !.num_list = ListPopAt(@, ci - 1),
                                    !.children[a] = NodeAdd(@, par.num_list[ci])],
                        ci + 1, FALSE),
        ci + 1, a, FALSE)

\* MergeResult that leaves the emptied node among the parent's children
MergeResultNoPop(par1, ci, mv) ==
    IF mv.exc # "none" THEN Parent(par1, mv.exc)
    ELSE Parent([par1 EXCEPT !.children = mv.ch], "none")

\* parent.children.pop(curr_index) after the merge child loop
MergeResult(par1, ci, mv) ==
    IF mv.exc # "none" THEN Parent(par1, mv.exc)
    ELSE Parent([par1 EXCEPT !.children = ListPopAt(mv.ch, ci - 1)], "none")

\* sibling.add(parent.pop(ki)) for the sibling at si, then the child loop
MergeInto(par, a, ci, si, ki) ==
    IF ki > Len(par.num_list) \/ si > Len(par.children) THEN Parent(par, "IndexError")
    ELSE MergeResult([par EXCEPT !.num_list = ListPopAt(@, ki - 1),
                                 !.children[si] = NodeAdd(@, par.num_list[ki])],
                     ci,
                     MergeChildren([par EXCEPT !.children[si] = NodeAdd(@, par.num_list[ki])].children,
                                   si, a))

\* Merge that looks for a right sibling first
MergePreferRight(par, a, ci, sibBound) ==
    IF ci - 1 < Len(par.num_list) THEN MergeInto(par, a, ci, ci + 1, ci)
    ELSE IF ci > 1 THEN MergeInto(par, a, ci, ci - 1, ci - 1)
    ELSE Parent(par, IF sibBound THEN "StaleSibling" ELSE "UnboundLocalError")

\* the else branch: the separator goes down into the sibling (the left one
\* when there is one, else the right one), curr's children follow, and the
\* child at curr_index leaves the parent; with neither sibling the name
\* sibling is unbound, or left over from the iteration before
Merge(par, a, ci, sibBound) ==
    IF ci > 1 THEN MergeInto(par, a, ci, ci - 1, ci - 1)
    ELSE IF ci - 1 < Len(par.num_list) THEN MergeInto(par, a, ci, ci + 1, ci)
    ELSE Parent(par, IF sibBound THEN "StaleSibling" ELSE "UnboundLocalError")

\* the if / elif / else of one fix iteration, on the parent
FixParent(par, a, ci, sibBound) ==
    IF CanBorrowLeft(par, ci) THEN BorrowLeft(par, a, ci)
    ELSE IF ci - 1 < Len(par.num_list) /\ ci + 1 > Len(par.children)
         THEN Parent(par, "IndexError")
    ELSE IF CanBorrowRight(par, ci) THEN BorrowRight(par, a, ci)
    ELSE Merge(par, a, ci, sibBound)

\* FixStepDone that drops the repaired parent
FixStepDoneNoRepair(s, pp, r) ==
    IF r.exc # "none" THEN Raise(s, r.exc)
    ELSE [s EXCEPT !.vl = Front(@), !.sib = TRUE]

\* visited_list.pop() after the parent at pp has been repaired
FixStepDone(s, pp, r) ==
    IF r.exc # "none" THEN Raise(s, r.exc)
    ELSE [s EXCEPT !.root = SetAt(s.root, pp, r.parent), !.vl = Front(@), !.sib = TRUE]

\* curr_index = parent.children.index(curr)
FixStepAt(s, pp, par, a) ==
    FixStepDone(s, pp, FixParent(par, a, ListIndex(par.children, par.children[a]) + 1, s.sib))

\* one iteration of   while visited_list and len(visited_list[-1]) == 0
\* for a curr that is not the root
FixStep(s) ==
    IF Len(s.vl) < 2 THEN Raise(s, "IndexError")
    ELSE FixStepAt(s, s.vl[Len(s.vl) - 1], NodeAt(s.root, s.vl[Len(s.vl) - 1]),
                   Last(Last(s.vl)))

\* FixLoop without "if curr is self._root: self._root = curr.children[0]":
\* an emptied root stays in place above its only child
RECURSIVE FixLoopNoCollapse(_)
FixLoopNoCollapse(s) ==
    IF s.exc # "none" \/ Len(s.vl) = 0 THEN s
    ELSE IF Len(NodeAt(s.root, Last(s.vl)).num_list) # 0 THEN s
    ELSE IF Last(s.vl) = <<>> THEN s
    ELSE FixLoopNoCollapse(FixStep(s))

\* FixLoop without the return after the root is replaced: the old root is
\* still the last node of visited_list, and visited_list[-2] fails
RECURSIVE FixLoopNoReturn(_)
FixLoopNoReturn(s) ==
    IF s.exc # "none" \/ Len(s.vl) = 0 THEN s
    ELSE IF Len(NodeAt(s.root, Last(s.vl)).num_list) # 0 THEN s
    ELSE IF Last(s.vl) = <<>>
         THEN IF Len(s.root.children) = 0 THEN Raise(s, "IndexError")
              ELSE Raise([s EXCEPT !.root = s.root.children[1]], "IndexError")
    ELSE FixLoopNoReturn(FixStep(s))

\* FixLoop that leaves after its first iteration
FixLoopOneLevel(s) ==
    IF s.exc # "none" \/ Len(s.vl) = 0 THEN s
    ELSE IF Len(NodeAt(s.root, Last(s.vl)).num_list) # 0 THEN s
    ELSE IF Last(s.vl) = <<>>
         THEN IF Len(s.root.children) = 0 THEN Raise(s, "IndexError")
              ELSE [s EXCEPT !.root = s.root.children[1]]
    ELSE FixStep(s)

RECURSIVE FixLoop(_)
FixLoop(s) ==
    IF s.exc # "none" \/ Len(s.vl) = 0 THEN s
    ELSE IF Len(NodeAt(s.root, Last(s.vl)).num_list) # 0 THEN s
    ELSE IF Last(s.vl) = <<>>
         THEN IF Len(s.root.children) = 0 THEN Raise(s, "IndexError")
              ELSE [s EXCEPT !.root = s.root.children[1]]
    ELSE FixLoop(FixStep(s))

\* _rebalance(visited_list): the root test, the split loop, the fix loop
rebalance(t, vl) ==
    IF vl[1] # <<>> THEN Raise(Running(t, vl), "RootMismatch")
    ELSE FixLoop(SplitLoop(Running(t, vl)))

\* ------------------------------------------------------------- BTree.add
\* what a call leaves: the tree, the count and the exception
Result(t, cnt, e) == [root |-> t, n |-> cnt, exc |-> e]

\* while not curr.is_leaf():
\*     curr = curr.children[get_insertion_index(item, curr.num_list)]
RECURSIVE AddDescend(_, _, _)
AddDescend(t, vl, item) ==
    LET curr == NodeAt(t, Last(vl))
        i    == KeyIndex(item, curr.num_list)
    IN IF is_leaf(curr) THEN [vl |-> vl, exc |-> "none"]
       ELSE IF i = NoneIdx THEN [vl |-> vl, exc |-> "TypeError"]
       ELSE IF i + 1 > Len(curr.children) THEN [vl |-> vl, exc |-> "IndexError"]
       ELSE AddDescend(t, Append(vl, Last(vl) \o <<i + 1>>), item)

\* AddResult without the increment: "self._n += 1" skipped after a rebalance
AddResultNoCount(cnt, rb) == Result(rb.root, cnt, rb.exc)

\* self._n += 1 once _rebalance has returned
AddResult(cnt, rb) ==
    IF rb.exc # "none" THEN Result(rb.root, cnt, rb.exc)
    ELSE Result(rb.root, cnt + 1, "none")

\* if len(curr.num_list) > self._b: self._rebalance(visited_list); then the count
AddFinish(cnt, t1, vl) ==
    IF Len(NodeAt(t1, Last(vl)).num_list) > _b THEN AddResult(cnt, rebalance(t1, vl))
    ELSE Result(t1, cnt + 1, "none")

\* curr.add(item) at the leaf the descent d ended in
AddAt(t, cnt, item, d) ==
    IF d.exc # "none" THEN Result(t, cnt, d.exc)
    ELSE IF KeyIndex(item, NodeAt(t, Last(d.vl)).num_list) = NoneIdx
         THEN Result(t, cnt, "TypeError")
    ELSE AddFinish(cnt, SetAt(t, Last(d.vl), NodeAdd(NodeAt(t, Last(d.vl)), item)), d.vl)

\* add(item) on the tree (t, cnt)
add(t, cnt, item) == AddAt(t, cnt, item, AddDescend(t, <<<<>>>>, item))

\* ---------------------------------------------------------- BTree.remove
\* RemoveDescend without the raise: the descent ends at the leaf it reaches
RECURSIVE RemoveDescendNoRaise(_, _, _)
RemoveDescendNoRaise(t, vl, item) ==
    LET curr == NodeAt(t, Last(vl))
        i    == KeyIndex(item, curr.num_list)
    IN IF ListHeapContains(curr.num_list, item) \/ Len(curr.children) = 0
       THEN [vl |-> vl, exc |-> "none"]
       ELSE RemoveDescendNoRaise(t, Append(vl, Last(vl) \o <<i + 1>>), item)

\* while item not in curr:
\*     if curr is None or len(curr.children) == 0: raise
\*     curr = curr.children[get_insertion_index(item, curr.num_list)]
RECURSIVE RemoveDescend(_, _, _)
RemoveDescend(t, vl, item) ==
    LET curr == NodeAt(t, Last(vl))
        i    == KeyIndex(item, curr.num_list)
    IN IF ListHeapContains(curr.num_list, item) THEN [vl |-> vl, exc |-> "none"]
       ELSE IF Len(curr.children) = 0 THEN [vl |-> vl, exc |-> "ItemNotFound"]
       ELSE IF i = NoneIdx THEN [vl |-> vl, exc |-> "TypeError"]
       ELSE IF i + 1 > Len(curr.children) THEN [vl |-> vl, exc |-> "IndexError"]
       ELSE RemoveDescend(t, Append(vl, Last(vl) \o <<i + 1>>), item)

\* RightmostDescend that follows children[0]
RECURSIVE LeftmostDescend(_, _)
LeftmostDescend(t, vl) ==
    IF is_leaf(NodeAt(t, Last(vl))) THEN vl
    ELSE LeftmostDescend(t, Append(vl, Last(vl) \o <<1>>))

\* while not replace_curr.is_leaf(): replace_curr = replace_curr.children[-1]
RECURSIVE RightmostDescend(_, _)
RightmostDescend(t, vl) ==
    IF is_leaf(NodeAt(t, Last(vl))) THEN vl
    ELSE RightmostDescend(t, Append(vl, Last(vl) \o <<Len(NodeAt(t, Last(vl)).children)>>))

\* curr.num_list.remove(item); curr.add(k) on the node at p
ReplaceInNode(t1, p, item, k) ==
    SetAt(t1, p, NodeAdd([NodeAt(t1, p) EXCEPT !.num_list = ListRemove(@, item)], k))

\* replace_curr.num_list.pop() on the leaf at lp gives the key that replaces
\* item in the node at p
ReplaceFromLeaf(t, p, item, vl2) ==
    IF Len(NodeAt(t, Last(vl2)).num_list) = 0
    THEN [root |-> t, vl |-> vl2, exc |-> "EmptyPop"]
    ELSE [root |-> ReplaceInNode(SetAt(t, Last(vl2),
                                       [NodeAt(t, Last(vl2)) EXCEPT !.num_list = Front(@)]),
                                 p, item, Last(NodeAt(t, Last(vl2)).num_list)),
          vl |-> vl2, exc |-> "none"]

\* the else branch of remove: item is a key of the internal node at the end
\* of vl; the last key of the rightmost leaf below children[index of item]
\* replaces it, and the nodes down to that leaf join the visited_list
RemoveInternal(t, vl, item) ==
    IF ListIndex(NodeAt(t, Last(vl)).num_list, item) + 1 > Len(NodeAt(t, Last(vl)).children)
    THEN [root |-> t, vl |-> vl, exc |-> "IndexError"]
    ELSE ReplaceFromLeaf(t, Last(vl), item,
            RightmostDescend(t, Append(vl, Last(vl) \o
                <<ListIndex(NodeAt(t, Last(vl)).num_list, item) + 1>>)))

\* the if branch of remove: curr.num_list.remove(item) on the leaf
RemoveLeaf(t, vl, item) ==
    [root |-> SetAt(t, Last(vl), [NodeAt(t, Last(vl)) EXCEPT !.num_list = ListRemove(@, item)]),
     vl |-> vl, exc |-> "none"]

\* self._n -= 1; if len(visited_list[-1]) == 0 and self._n > 0: _rebalance
RemoveFinish(cnt, m) ==
    IF m.exc # "none" THEN Result(m.root, cnt, m.exc)
    ELSE IF Len(NodeAt(m.root, Last(m.vl)).num_list) = 0 /\ cnt - 1 > 0
         THEN Result(rebalance(m.root, m.vl).root, cnt - 1, rebalance(m.root, m.vl).exc)
    ELSE Result(m.root, cnt - 1, "none")

\* the key removal at the node the descent d ended in
RemoveAt(t, cnt, item, d) ==
    IF d.exc # "none" THEN Result(t, cnt, d.exc)
    ELSE RemoveFinish(cnt, IF is_leaf(NodeAt(t, Last(d.vl)))
                           THEN RemoveLeaf(t, d.vl, item)
                           ELSE RemoveInternal(t, d.vl, item))

\* remove(item) on the tree (t, cnt)
remove(t, cnt, item) == RemoveAt(t, cnt, item, RemoveDescend(t, <<<<>>>>, item))

\* ------------------------------------------- BTree.__iter__ / __next__
\* The traversal state is [stack, discovered]: stack entries are
\* [node |-> reference, idx |-> item_index], discovered holds the references
\* of the nodes whose _id was added.

\* iter that starts the root at item_index 1
iterFromOne(t) == [stack |-> <<[node |-> <<>>, idx |-> 1]>>, discovered |-> {}]

\* __iter__: self.discovered = set(); self.stack = [(self._root, 0)]
iter(t) == [stack |-> <<[node |-> <<>>, idx |-> 0]>>, discovered |-> {}]

\* __next__: [it |-> the traversal state after the call, stop |-> StopIteration
\* was raised, val |-> the item returned otherwise]
RECURSIVE next(_, _)
next(t, it) ==
    IF Len(it.stack) = 0 THEN [it |-> it, stop |-> TRUE, val |-> 0]
    ELSE
      LET top  == Last(it.stack)
          node == NodeAt(t, top.node)
          disc == it.discovered \cup {top.node}
          \* the first child at which the for loop returns or breaks
          F    == {i \in 0..(Len(node.children) - 1) :
                      \/ (top.node \o <<i + 1>>) \notin disc
                      \/ (top.idx = i /\ i < Len(node.num_list))}
          i    == SetMin(F)
          adv  == [it EXCEPT !.discovered = disc,
                             !.stack[Len(it.stack)] = [node |-> top.node, idx |-> top.idx + 1]]
      IN IF F # {} /\ (top.node \o <<i + 1>>) \in disc
            THEN [it |-> adv, stop |-> FALSE, val |-> node.num_list[i + 1]]
         ELSE IF F # {}
            THEN next(t, [stack |-> Append(it.stack, [node |-> top.node \o <<i + 1>>, idx |-> 0]),
                          discovered |-> disc \cup {top.node \o <<i + 1>>}])
         ELSE IF top.idx < Len(node.num_list)
            THEN [it |-> adv, stop |-> FALSE, val |-> node.num_list[top.idx + 1]]
         ELSE next(t, [stack |-> Front(it.stack), discovered |-> disc])

\* list(tree): every item __next__ returns until StopIteration
RECURSIVE Drain(_, _, _)
Drain(t, it, out) ==
    LET r == next(t, it)
    IN IF r.stop THEN out ELSE Drain(t, r.it, Append(out, r.val))

Iterate(t) == Drain(t, iter(t), <<>>)

\* the traversal state after the __next__ call that raised StopIteration
RECURSIVE DrainEnd(_, _)
DrainEnd(t, it) ==
    LET r == next(t, it)
    IN IF r.stop THEN r.it ELSE DrainEnd(t, r.it)

\* ContainsFrom that answers at the first item: a return inside the loop
ContainsFromFirstOnly(t, it, item) ==
    LET r == next(t, it)
    IN IF r.stop THEN FALSE ELSE r.val = item

\* item in tree: BTree defines no __contains__, so Python walks iter(tree) and
\* answers True at the first element equal to item, False at StopIteration
RECURSIVE ContainsFrom(_, _, _)
ContainsFrom(t, it, item) ==
    LET r == next(t, it)
    IN IF r.stop THEN FALSE
       ELSE IF r.val = item THEN TRUE
       ELSE ContainsFrom(t, r.it, item)

contains(t, item) == ContainsFrom(t, iter(t), item)

\* the traversal state the walk of "item in tree" leaves on the tree: the one
\* after the __next__ call that returned item or raised StopIteration
RECURSIVE ContainsEnd(_, _, _)
ContainsEnd(t, it, item) ==
    LET r == next(t, it)
    IN IF r.stop \/ r.val = item THEN r.it ELSE ContainsEnd(t, r.it, item)

\* ---------------------------------------------------------------- actions
Init ==
    /\ pc = "start"
    /\ root = EmptyNode
    /\ n = 0
    /\ err = "none"
    /\ order = 0
    /\ bag = [v \in Values |-> 0]
    /\ adds = 0
    /\ removes = 0
    /\ last = [op |-> "none", arg |-> 0]
    /\ stack = <<>>
    /\ discovered = {}
    /\ phase = "idle"
    /\ got = <<>>
    /\ item_list = <<>>
    /\ min = FALSE
    /\ ret = 0

\* BTree(b) for an int b: "if self._b < 2: raise", then the empty root
New(b) ==
    /\ pc = "start"
    /\ order' = b
    /\ last' = [op |-> "new", arg |-> b]
    /\ IF _b < 2
       THEN /\ err' = "ConfigurationError"
            /\ UNCHANGED <<pc, root, n>>
       ELSE /\ pc' = "ready"
            /\ root' = EmptyNode
            /\ n' = 0
            /\ err' = "none"
    /\ UNCHANGED <<bag, adds, removes>>
    /\ UNCHANGED <<iterVars, heapVars>>

Add(v) ==
    /\ pc = "ready"
    /\ adds < MaxAdds
    /\ LET r == add(root, n, v)
       IN /\ root' = r.root
          /\ n' = r.n
          /\ err' = r.exc
          /\ bag' = IF r.exc = "none" THEN [bag EXCEPT ![v] = @ + 1] ELSE bag
          /\ adds' = IF r.exc = "none" THEN adds + 1 ELSE adds
    /\ last' = [op |-> "add", arg |-> v]
    /\ UNCHANGED <<pc, order, removes>>
    /\ UNCHANGED <<iterVars, heapVars>>

Remove(v) ==
    /\ pc = "ready"
    /\ LET r == remove(root, n, v)
       IN /\ root' = r.root
          /\ n' = r.n
          /\ err' = r.exc
          /\ bag' = IF r.exc = "none" /\ bag[v] > 0 THEN [bag EXCEPT ![v] = @ - 1] ELSE bag
          /\ removes' = IF r.exc = "none" THEN removes + 1 ELSE removes
    /\ last' = [op |-> "remove", arg |-> v]
    /\ UNCHANGED <<pc, order, adds>>
    /\ UNCHANGED <<iterVars, heapVars>>

Next ==
    \/ \E b \in Orders : New(b)
    \/ \E v \in Values : Add(v)
    \/ \E v \in Values : Remove(v)

Spec == Init /\ [][Next]_vars

\* ------------------------------------------- the round trip of distinct items
\* BTree(b), then add of items not added before, then remove of stored items
\* in any order; no add follows a remove
Items == 1..MaxItems

\* no loop iterates the tree, no heap is used on its own
IterIdle == stack = <<>> /\ discovered = {} /\ phase = "idle" /\ got = <<>>
HeapIdle == item_list = <<>> /\ min = FALSE /\ ret = 0

InitRoundTrip ==
    /\ pc = "start"
    /\ root = EmptyNode
    /\ n = 0
    /\ err = "none"
    /\ order = 0
    /\ bag = [v \in Items |-> 0]
    /\ adds = 0
    /\ removes = 0
    /\ last = [op |-> "none", arg |-> 0]
    /\ IterIdle
    /\ HeapIdle

AddDistinct(v) == bag[v] = 0 /\ removes = 0 /\ Add(v)
RemoveStored(v) == bag[v] > 0 /\ Remove(v)

NextRoundTrip ==
    \/ \E b \in Orders : New(b)
    \/ \E v \in Items : AddDistinct(v)
    \/ \E v \in Items : RemoveStored(v)

SpecRoundTrip == InitRoundTrip /\ [][NextRoundTrip]_vars

\* ------------------------------------------------- observing the tree
\* the references of all nodes of t, and of its leaves
RECURSIVE NodeRefs(_)
NodeRefs(t) ==
    {<<>>} \cup UNION {{<<i>> \o p : p \in NodeRefs(t.children[i])} : i \in 1..Len(t.children)}

LeafRefs(t) == {p \in NodeRefs(t) : is_leaf(NodeAt(t, p))}

\* the set of keys stored in the subtree t
RECURSIVE SubtreeKeys(_)
SubtreeKeys(t) ==
    {t.num_list[i] : i \in 1..Len(t.num_list)}
        \cup UNION {SubtreeKeys(t.children[i]) : i \in 1..Len(t.children)}

Height(t) == SetMax({Len(p) : p \in NodeRefs(t)}) + 1

IsAscending(l) == \A i \in 1..(Len(l) - 1) : l[i] <= l[i + 1]
Occurrences(l, v) == Cardinality({i \in 1..Len(l) : l[i] = v})
\* l holds exactly the items of the reference multiset
SameItems(l) ==
    /\ \A i \in 1..Len(l) : l[i] \in Values
    /\ \A v \in Values : Occurrences(l, v) = bag[v]

\* no call ends in an exception other than remove's "not in the tree"
NoInternalError == err \in {"none", "ItemNotFound"}

\* ------------------------------------------------------------------ claims

\* C1: on a tree that has only been added to (no remove has returned),
\* iterating yields the items in non-decreasing order and the yielded
\* sequence holds every inserted item with its exact multiplicity.
C1_IterateSortedAfterAdds ==
    (pc = "ready" /\ removes = 0)
        => (IsAscending(Iterate(root)) /\ SameItems(Iterate(root)))

\* the items of the reference multiset in ascending order
BagSorted ==
    LET RECURSIVE Build(_)
        Build(v) == IF v > MaxVal THEN <<>>
                    ELSE [i \in 1..bag[v] |-> v] \o Build(v + 1)
    IN Build(1)

\* C2: after any adds and successful removes, iterating yields exactly the
\* sorted contents of the reference multiset; a remove(x) that returned with
\* another x still stored leaves x contained.
C2_IterateIsSortedReference ==
    pc = "ready" =>
        /\ Iterate(root) = BagSorted
        /\ (last.op = "remove" /\ err = "none" /\ bag[last.arg] > 0)
               => contains(root, last.arg)

\* C3: a remove(item) call for an item the reference multiset does not hold
\* raises "not in the tree" and leaves the count, every node's keys and
\* children, and the iteration order as they were before the call.
C3_AbsentRemoveChangesNothing ==
    [][(last'.op = "remove" /\ bag[last'.arg] = 0)
          => /\ err' = "ItemNotFound"
             /\ n' = n
             /\ root' = root
             /\ Iterate(root') = Iterate(root)]_vars

C3_Witness ==
    /\ last.op = "remove"
    /\ bag[last.arg] = 0
    /\ err = "ItemNotFound"
    /\ Height(root) >= 2
    /\ n >= 4

\* C4: construction succeeds only for b >= 2: a constructed tree was never
\* built from an order argument below 2.
C4_ConstructionRejectsSmallOrder == pc = "ready" => order >= 2

\* C5: for a tree built with order b >= 2, after every add and remove that
\* returned no node holds more than b keys.
C5_NoNodeAboveOrder ==
    (pc = "ready" /\ order >= 2)
        => \A p \in NodeRefs(root) : Len(NodeAt(root, p).num_list) <= order

\* C6: len(tree) equals the number of add calls that returned minus the
\* number of remove calls that returned; a remove that raised counts in
\* neither and so must leave len(tree) alone.
C6_CountIsAddsMinusRemoves == pc = "ready" => n = adds - removes

C6_Witness ==
    /\ adds >= 5
    /\ removes >= 2
    /\ n = adds - removes
    /\ last.op = "remove"
    /\ err = "ItemNotFound"

\* C7: after every add and remove call every leaf is at the same depth.
C7_LeavesSameDepth ==
    pc = "ready" => \A p, q \in LeafRefs(root) : Len(p) = Len(q)

C7_Witness ==
    /\ Height(root) >= 3
    /\ removes >= 1
    /\ last.op = "remove"
    /\ err = "none"

\* C8: after every add and remove call every non-leaf node has exactly one
\* more child than it has keys.
C8_ChildrenIsKeysPlusOne ==
    pc = "ready" =>
        \A p \in NodeRefs(root) :
            LET nd == NodeAt(root, p)
            IN ~is_leaf(nd) => Len(nd.children) = Len(nd.num_list) + 1

C8_Witness ==
    /\ last.op = "remove"
    /\ err = "none"
    /\ adds >= 1
    /\ \E p \in NodeRefs(root) :
          /\ p # <<>>
          /\ ~is_leaf(NodeAt(root, p))
          /\ Len(NodeAt(root, p).num_list) >= 2

\* C9: after every add and remove call, for every key position i of every
\* internal node, the keys below children[i] are <= keys[i] and keys[i] is <=
\* the keys below children[i+1].
C9_SearchOrder ==
    pc = "ready" =>
        \A p \in NodeRefs(root) :
            LET nd == NodeAt(root, p)
            IN \A i \in 1..Len(nd.num_list) :
                  /\ i <= Len(nd.children)
                        => \A k \in SubtreeKeys(nd.children[i]) : k <= nd.num_list[i]
                  /\ i + 1 <= Len(nd.children)
                        => \A k \in SubtreeKeys(nd.children[i + 1]) : nd.num_list[i] <= k

\* C10: item in tree is true exactly for the items the reference multiset
\* holds at least once, and false for every other value (0 and MaxVal + 1
\* are never added).
C10_ContainsIffStored ==
    pc = "ready" =>
        \A v \in 0..(MaxVal + 1) :
            contains(root, v) <=> (v \in Values /\ bag[v] > 0)

C10_Witness ==
    /\ Height(root) >= 2
    /\ \E v, w \in Values :
          /\ bag[v] > 0
          /\ bag[w] = 0
          /\ last = [op |-> "remove", arg |-> w]
          /\ err = "none"

\* ------------------------------------------- a List_Heap used on its own
HeapValues == 1..MaxHeapVal
\* the items asked about: the stored range and one value on either side
Probes == 0..(MaxHeapVal + 1)

\* what a List_Heap call leaves: the list, the value returned, the exception
HeapResult(l, val, e) == [l |-> l, val |-> val, exc |-> e]

\* insert_into_list that takes every list for an ascending one
InsertAscendingOnly(item, l, reverse) ==
    HeapResult(ListInsertAt(l, get_insertion_index(item, l, FALSE, FALSE), item),
               NoneIdx, "none")

\* insert_into_list(item, l, reverse): l.insert(get_insertion_index(...), item);
\* list.insert raises TypeError when handed None
insert_into_list(item, l, reverse) ==
    IF get_insertion_index(item, l, reverse, FALSE) = NoneIdx
    THEN HeapResult(l, NoneIdx, "TypeError")
    ELSE HeapResult(ListInsertAt(l, get_insertion_index(item, l, reverse, FALSE), item),
                    NoneIdx, "none")

\* l.sort(reverse=...) on a list of the distinct items of S
RECURSIVE SortSet(_, _)
SortSet(S, reverse) ==
    IF S = {} THEN <<>>
    ELSE IF reverse THEN <<SetMax(S)>> \o SortSet(S \ {SetMax(S)}, reverse)
    ELSE <<SetMin(S)>> \o SortSet(S \ {SetMin(S)}, reverse)

\* for item in item_list: self.insert(item)
RECURSIVE InsertAll(_, _, _)
InsertAll(items, l, reverse) ==
    IF Len(items) = 0 THEN HeapResult(l, NoneIdx, "none")
    ELSE IF insert_into_list(Head(items), l, reverse).exc # "none"
         THEN insert_into_list(Head(items), l, reverse)
    ELSE InsertAll(Tail(items), insert_into_list(Head(items), l, reverse).l, reverse)

\* List_Heap.pop(): the last element leaves; an empty heap raises
ListHeapPop(l) ==
    IF Len(l) = 0 THEN HeapResult(l, NoneIdx, "EmptyPop")
    ELSE HeapResult(Front(l), Last(l), "none")

\* List_Heap.index(item): list.index, which raises ValueError when item is
\* not in the list
ListHeapIndex(l, item) ==
    IF \E i \in 1..Len(l) : l[i] = item THEN HeapResult(l, ListIndex(l, item), "none")
    ELSE HeapResult(l, NoneIdx, "ValueError")

\* List_Heap.remove(item): list.remove, which raises ValueError likewise
ListHeapRemove(l, item) ==
    IF \E i \in 1..Len(l) : l[i] = item THEN HeapResult(ListRemove(l, item), NoneIdx, "none")
    ELSE HeapResult(l, NoneIdx, "ValueError")

\* BinarySearchMin with the comparison of the min=False loop: a middle
\* element above item sends the search left, as on an ascending list
RECURSIVE BinarySearchMinAscending(_, _, _, _)
BinarySearchMinAscending(l, item, start, end) ==
    IF ~(start < end) THEN FALSE
    ELSE LET mid == (start + end) \div 2
         IN IF l[mid + 1] = item THEN TRUE
            ELSE IF item < l[mid + 1] THEN BinarySearchMinAscending(l, item, start, mid)
            ELSE BinarySearchMinAscending(l, item, mid + 1, end)

\* List_Heap.__contains__, the loop of the min=True branch: the list is
\* descending, so a middle element below item sends the search left
RECURSIVE BinarySearchMin(_, _, _, _)
BinarySearchMin(l, item, start, end) ==
    IF ~(start < end) THEN FALSE
    ELSE LET mid == (start + end) \div 2
         IN IF l[mid + 1] = item THEN TRUE
            ELSE IF l[mid + 1] < item THEN BinarySearchMin(l, item, start, mid)
            ELSE BinarySearchMin(l, item, mid + 1, end)

\* List_Heap.__contains__ of a heap with the given min
HeapContains(l, m, item) ==
    IF Len(l) = 0 THEN FALSE
    ELSE IF m THEN
        IF l[1] < item \/ item < l[Len(l)] THEN FALSE
        ELSE BinarySearchMin(l, item, 0, Len(l))
    ELSE ListHeapContains(l, item)

InitHeap ==
    /\ pc = "start"
    /\ root = EmptyNode
    /\ n = 0
    /\ err = "none"
    /\ order = 0
    /\ bag = [v \in HeapValues |-> 0]
    /\ adds = 0
    /\ removes = 0
    /\ last = [op |-> "none", arg |-> 0]
    /\ IterIdle
    /\ HeapIdle

\* the ordered lists of the distinct items of S
Orderings(S) ==
    {q \in [1..Cardinality(S) -> S] : \A i, j \in 1..Cardinality(S) : i # j => q[i] # q[j]}

\* List_Heap(item_list, fast_insert, min) for the items of a set S, which the
\* constructor reads in the order items
HeapNew(S, items, fast_insert, m) ==
    /\ pc = "start"
    /\ items \in Orderings(S)
    /\ pc' = "heap"
    /\ min' = m
    /\ LET r == IF fast_insert THEN HeapResult(SortSet(S, m), NoneIdx, "none")
                ELSE InsertAll(items, <<>>, m)
       IN /\ item_list' = r.l
          /\ err' = r.exc
    /\ bag' = [v \in HeapValues |-> IF v \in S THEN 1 ELSE 0]
    /\ last' = [op |-> "new", arg |-> 0]
    /\ UNCHANGED <<ret, root, n, order, adds, removes, iterVars>>

\* heap.insert(v)
HeapInsert(v) ==
    /\ pc = "heap"
    /\ Len(item_list) < MaxHeapLen
    /\ item_list' = insert_into_list(v, item_list, min).l
    /\ err' = insert_into_list(v, item_list, min).exc
    /\ bag' = IF insert_into_list(v, item_list, min).exc = "none"
              THEN [bag EXCEPT ![v] = @ + 1] ELSE bag
    /\ last' = [op |-> "insert", arg |-> v]
    /\ UNCHANGED <<pc, min, ret, root, n, order, adds, removes, iterVars>>

\* heap.pop()
HeapPop ==
    /\ pc = "heap"
    /\ item_list' = ListHeapPop(item_list).l
    /\ ret' = ListHeapPop(item_list).val
    /\ err' = ListHeapPop(item_list).exc
    /\ bag' = IF Len(item_list) = 0 THEN bag ELSE [bag EXCEPT ![Last(item_list)] = @ - 1]
    /\ last' = [op |-> "pop", arg |-> 0]
    /\ UNCHANGED <<pc, min, root, n, order, adds, removes, iterVars>>

\* heap.index(v)
HeapIndex(v) ==
    /\ pc = "heap"
    /\ item_list' = ListHeapIndex(item_list, v).l
    /\ ret' = ListHeapIndex(item_list, v).val
    /\ err' = ListHeapIndex(item_list, v).exc
    /\ last' = [op |-> "index", arg |-> v]
    /\ UNCHANGED <<pc, min, bag, root, n, order, adds, removes, iterVars>>

\* heap.remove(v)
HeapRemove(v) ==
    /\ pc = "heap"
    /\ item_list' = ListHeapRemove(item_list, v).l
    /\ err' = ListHeapRemove(item_list, v).exc
    /\ bag' = IF ListHeapRemove(item_list, v).exc = "none"
              THEN [bag EXCEPT ![v] = @ - 1] ELSE bag
    /\ last' = [op |-> "remove", arg |-> v]
    /\ UNCHANGED <<pc, min, ret, root, n, order, adds, removes, iterVars>>

\* v in heap
HeapMember(v) ==
    /\ pc = "heap"
    /\ ret' = HeapContains(item_list, min, v)
    /\ err' = "none"
    /\ last' = [op |-> "contains", arg |-> v]
    /\ UNCHANGED <<pc, item_list, min, bag, root, n, order, adds, removes, iterVars>>

\* get_insertion_index(v, heap.item_list, heap.min)
HeapInsertionIndex(v) ==
    /\ pc = "heap"
    /\ ret' = get_insertion_index(v, item_list, min, FALSE)
    /\ err' = "none"
    /\ last' = [op |-> "get_insertion_index", arg |-> v]
    /\ UNCHANGED <<pc, item_list, min, bag, root, n, order, adds, removes, iterVars>>

NextHeap ==
    \/ \E S \in SUBSET HeapValues, fast_insert, m \in BOOLEAN :
          \E items \in Orderings(S) : HeapNew(S, items, fast_insert, m)
    \/ \E v \in HeapValues : HeapInsert(v)
    \/ HeapPop
    \/ \E v \in Probes : HeapIndex(v)
    \/ \E v \in Probes : HeapRemove(v)
    \/ \E v \in Probes : HeapMember(v)
    \/ \E v \in Probes : HeapInsertionIndex(v)

SpecHeap == InitHeap /\ [][NextHeap]_vars

\* ------------------------------------------------- iterating the tree
\* A tree is built by BTree(b) and add calls; then a loop iterates it: one
\* iter(tree) call, then next calls until StopIteration, the items collected
\* in got.  __iter__ returns self, so every iter(tree) and next call works on
\* the tree's own stack and discovered.  While the loop runs, a second
\* traversal of the same tree may start and advance, and membership tests
\* may run.
Traversal == [stack |-> stack, discovered |-> discovered]

BuildAdd(v) == phase = "idle" /\ adds < MaxIterAdds /\ Add(v)

\* the loop's iter(tree)
LoopStart ==
    /\ pc = "ready"
    /\ phase = "idle"
    /\ stack' = iter(root).stack
    /\ discovered' = iter(root).discovered
    /\ phase' = "iterating"
    /\ got' = <<>>
    /\ UNCHANGED <<treeVars, heapVars>>

\* the loop's next(tree)
LoopNext ==
    /\ phase \in {"iterating", "both"}
    /\ LET r == next(root, Traversal)
       IN /\ stack' = r.it.stack
          /\ discovered' = r.it.discovered
          /\ got' = IF r.stop THEN got ELSE Append(got, r.val)
          /\ phase' = IF r.stop THEN "done" ELSE phase
    /\ UNCHANGED <<treeVars, heapVars>>

\* iter(tree) of a second traversal, started while the loop is running
SecondStart ==
    /\ phase = "iterating"
    /\ Len(got) < MaxGot
    /\ stack' = iter(root).stack
    /\ discovered' = iter(root).discovered
    /\ phase' = "both"
    /\ UNCHANGED <<got, treeVars, heapVars>>

\* next(tree) of the second traversal; StopIteration ends it
SecondNext ==
    /\ phase = "both"
    /\ LET r == next(root, Traversal)
       IN /\ stack' = r.it.stack
          /\ discovered' = r.it.discovered
          /\ phase' = IF r.stop THEN "iterating" ELSE phase
    /\ UNCHANGED <<got, treeVars, heapVars>>

\* "v in tree" evaluated in the body of the loop
LoopContains(v) ==
    /\ phase = "iterating"
    /\ Len(got) < MaxGot
    /\ stack' = ContainsEnd(root, iter(root), v).stack
    /\ discovered' = ContainsEnd(root, iter(root), v).discovered
    /\ UNCHANGED <<phase, got, treeVars, heapVars>>

NextIter ==
    \/ \E b \in Orders : New(b)
    \/ \E v \in Values : BuildAdd(v)
    \/ LoopStart
    \/ LoopNext
    \/ SecondStart
    \/ SecondNext
    \/ \E v \in Values : LoopContains(v)

SpecIter == Init /\ [][NextIter]_vars

\* C11: the root is always a node, and whenever the stored count is 0 the
\* root has no keys and no children; once every one of the distinct items
\* that were added has been removed, in any order, the count is 0.
C11_EmptyRootAtCountZero ==
    pc = "ready" =>
        /\ DOMAIN root = {"num_list", "children"}
        /\ (n = 0 => root = EmptyNode)
        /\ ((\A v \in Items : bag[v] = 0) => (n = 0 /\ root = EmptyNode))

C11_Witness ==
    /\ adds = MaxItems
    /\ removes = MaxItems
    /\ last.op = "remove"
    /\ err = "none"
    /\ n = 0
    /\ root = EmptyNode

\* C12: a loop over the tree is handed the full ascending sequence of the
\* stored items, each exactly once, whether or not a second traversal or a
\* membership test on the same tree ran while the loop was in progress.
C12_LoopGetsEveryItemOnce ==
    phase = "done" => (got = BagSorted /\ got = Iterate(root))

IsDescending(l) == \A i \in 1..(Len(l) - 1) : l[i] >= l[i + 1]

\* C13: after every insertion (and every other call) the list of a heap is
\* sorted, descending for reverse = min = True and ascending otherwise, and
\* holds exactly the items inserted and not taken out again; no insertion
\* raises.
C13_InsertKeepsSorted ==
    pc = "heap" =>
        /\ IF min THEN IsDescending(item_list) ELSE IsAscending(item_list)
        /\ \A i \in 1..Len(item_list) : item_list[i] \in HeapValues
        /\ \A v \in HeapValues : Occurrences(item_list, v) = bag[v]
        /\ last.op = "insert" => err = "none"

C13_Witness ==
    /\ pc = "heap"
    /\ min
    /\ last.op = "insert"
    /\ Len(item_list) = MaxHeapLen
    /\ item_list[Len(item_list)] < last.arg
    /\ last.arg < item_list[1]

\* C14: item in heap is true exactly for the stored items, for min = True
\* and min = False, and false for every other value, those below the
\* smallest and above the largest stored item included.
C14_HeapContainsIffStored ==
    pc = "heap" =>
        /\ \A v \in Probes :
              HeapContains(item_list, min, v) <=> (v \in HeapValues /\ bag[v] > 0)
        /\ last.op = "contains"
              => (ret <=> (last.arg \in HeapValues /\ bag[last.arg] > 0))

C14_Witness ==
    /\ pc = "heap"
    /\ min
    /\ last.op = "contains"
    /\ ret = FALSE
    /\ Len(item_list) >= 3
    /\ item_list[Len(item_list)] < last.arg
    /\ last.arg < item_list[1]

\* C15: heap.index(item) returns a position at which item is found, returns
\* -1 when item is not in the heap, and leaves the heap as it was in both
\* cases.
C15_IndexMinusOneWhenAbsent ==
    [][last'.op = "index"
          => /\ item_list' = item_list
             /\ err' = "none"
             /\ IF \E i \in 1..Len(item_list) : item_list[i] = last'.arg
                THEN /\ ret' \in 0..(Len(item_list) - 1)
                     /\ item_list[ret' + 1] = last'.arg
                ELSE ret' = -1]_vars

\* the 0-based positions i at which sequence[i] <= item <= sequence[i+1]
Between(l, item) == {i \in 0..(Len(l) - 2) : l[i + 1] <= item /\ item <= l[i + 2]}

\* C16 as stated: on an ascending list get_insertion_index returns 0 for an
\* item before the first element, len for an item >= the last element, and
\* otherwise the unique i with sequence[i] <= item <= sequence[i+1]; the
\* result is always an integer of 0..len.
C16_UniqueIndexBetween ==
    (pc = "heap" /\ ~min /\ last.op = "get_insertion_index") =>
        /\ ret \in 0..Len(item_list)
        /\ IF Len(item_list) = 0 THEN ret = 0
           ELSE IF last.arg < item_list[1] THEN ret = 0
           ELSE IF last.arg >= item_list[Len(item_list)] THEN ret = Len(item_list)
           ELSE Between(item_list, last.arg) = {ret}

\* C16 amended: on an ascending list get_insertion_index returns 0 for an
\* item before the first element, len for an item >= the last element, and
\* otherwise i + 1 for the largest i with sequence[i] <= item <=
\* sequence[i+1], which is the number of elements <= item; the result is
\* always an integer of 0..len.
C16_IndexAfterLastBetween ==
    (pc = "heap" /\ ~min /\ last.op = "get_insertion_index") =>
        /\ ret \in 0..Len(item_list)
        /\ IF Len(item_list) = 0 THEN ret = 0
           ELSE IF last.arg < item_list[1] THEN ret = 0
           ELSE IF last.arg >= item_list[Len(item_list)] THEN ret = Len(item_list)
           ELSE /\ Between(item_list, last.arg) # {}
                /\ ret = SetMax(Between(item_list, last.arg)) + 1
        /\ ret = Cardinality({i \in 1..Len(item_list) : item_list[i] <= last.arg})

C16_Witness ==
    /\ pc = "heap"
    /\ ~min
    /\ last.op = "get_insertion_index"
    /\ Len(item_list) = MaxHeapLen
    /\ item_list[1] < last.arg
    /\ last.arg < item_list[Len(item_list)]
    /\ Occurrences(item_list, last.arg) >= 2
    /\ ret = 3

\* the 1-based positions of the keys of l equal to item
EqualAt(l, item) == {i \in 1..Len(l) : l[i] = item}

\* C17: ties resolve to the right: at every internal node on the descent of
\* add(item) that holds keys equal to item, the child chosen is the one
\* immediately right of the last such key; and in every node holding keys
\* equal to item, item is inserted right after the last of them.
C17_TiesResolveRight ==
    pc = "ready" =>
        \A v \in Values :
            /\ AddDescend(root, <<<<>>>>, v).exc = "none"
            /\ \A k \in 1..(Len(AddDescend(root, <<<<>>>>, v).vl) - 1) :
                  LET vl   == AddDescend(root, <<<<>>>>, v).vl
                      keys == NodeAt(root, vl[k]).num_list
                  IN EqualAt(keys, v) # {}
                        => Last(vl[k + 1]) = SetMax(EqualAt(keys, v)) + 1
            /\ \A p \in NodeRefs(root) :
                  LET keys == NodeAt(root, p).num_list
                  IN EqualAt(keys, v) # {}
                        => /\ KeyIndex(v, keys) = SetMax(EqualAt(keys, v))
                           /\ NodeAdd(NodeAt(root, p), v).num_list
                                  = ListInsertAt(keys, SetMax(EqualAt(keys, v)), v)

C17_Witness ==
    /\ pc = "ready"
    /\ last.op = "add"
    /\ err = "none"
    /\ removes = 0
    /\ adds >= 6
    /\ bag[last.arg] = adds
    /\ Height(root) >= 2
    /\ EqualAt(root.num_list, last.arg) # {}

\* ------------------------------------------ the split iterations of an add
\* the tree and visited_list of add(v) once curr.add(item) has run
AddLeafState(t, v) ==
    Running(SetAt(t, Last(AddDescend(t, <<<<>>>>, v).vl),
                  NodeAdd(NodeAt(t, Last(AddDescend(t, <<<<>>>>, v).vl)), v)),
            AddDescend(t, <<<<>>>>, v).vl)

\* while visited_list and len(visited_list[-1]) > self._b
Overflows(s) ==
    s.exc = "none" /\ Len(s.vl) > 0 /\ Len(NodeAt(s.root, Last(s.vl)).num_list) > _b

\* the states in which the iterations of the split loop start, in order
RECURSIVE SplitStates(_)
SplitStates(s) == IF Overflows(s) THEN <<s>> \o SplitStates(SplitStep(s)) ELSE <<>>

\* the split iterations add(v) runs on the current tree
SplitsOfAdd(v) == SplitStates(AddLeafState(root, v))

\* the elements of a list, as a set
Elements(l) == {l[i] : i \in 1..Len(l)}

\* one split iteration started in s does what C18 says
SplitIterationAsClaimed(s) ==
    LET curr   == NodeAt(s.root, Last(s.vl))
        keys   == curr.num_list
        k      == _b \div 2
        h      == SplitHalves(curr)
        s2     == SplitStep(s)
        isRoot == Last(s.vl) = <<>>
        par    == IF isRoot THEN EmptyNode ELSE NodeAt(s.root, s.vl[Len(s.vl) - 1])
        par2   == IF isRoot THEN s2.root ELSE NodeAt(s2.root, s.vl[Len(s.vl) - 1])
        left   == [num_list |-> SubSeq(keys, 1, _b - k),
                   children |-> IF is_leaf(curr) THEN <<>>
                                ELSE SubSeq(curr.children, 1, Len(curr.children) - (k + 1))]
    IN /\ Len(keys) = _b + 1
       /\ s2.exc = "none"
       \* the floor(b/2) largest keys, in order, are the sibling's keys
       /\ h.new.num_list = SubSeq(keys, Len(keys) - k + 1, Len(keys))
       \* one key goes up: the largest that remained
       /\ Len(par2.num_list) = Len(par.num_list) + 1
       /\ keys[Len(keys) - k] \in Elements(par2.num_list)
       /\ ListRemove(par2.num_list, keys[Len(keys) - k]) = par.num_list
       \* one sibling is new among the parent's children
       /\ Len(par2.children) = (IF isRoot THEN 2 ELSE Len(par.children) + 1)
       /\ h.new \in Elements(par2.children)
       \* the node keeps b - floor(b/2) keys and its leading children
       /\ Len(left.num_list) = _b - k
       /\ left \in Elements(par2.children)
       /\ ~is_leaf(curr) =>
             /\ Len(h.new.children) = k + 1
             /\ Elements(h.new.children)
                   = Elements(SubSeq(curr.children, Len(curr.children) - k, Len(curr.children)))
             /\ Len(h.new.children) = Len(h.new.num_list) + 1
             /\ Len(left.children) = Len(left.num_list) + 1

\* C18: every iteration of the split loop works on a node of b + 1 keys,
\* moves its floor(b/2) largest keys in order into one new sibling, promotes
\* the largest key that remains to the parent and leaves b - floor(b/2) keys;
\* for an internal node the sibling receives the floor(b/2) + 1 trailing
\* children, so that both halves have one child more than keys.
C18_SplitIteration ==
    pc = "ready" =>
        \A v \in Values :
            \A k \in 1..Len(SplitsOfAdd(v)) : SplitIterationAsClaimed(SplitsOfAdd(v)[k])

C18_Witness ==
    /\ pc = "ready"
    /\ last.op = "add"
    /\ err = "none"
    /\ removes = 0
    /\ Height(root) >= 3
    /\ \E p \in NodeRefs(root) : p # <<>> /\ ~is_leaf(NodeAt(root, p))

\* the root a split of the root s.root must leave, as C19 says: the median
\* alone, the old root first, the new sibling second
RootAsClaimed(s) ==
    [num_list |-> <<Last(SplitHalves(s.root).curr.num_list)>>,
     children |-> <<[SplitHalves(s.root).curr EXCEPT !.num_list = Front(@)],
                    SplitHalves(s.root).new>>]

\* C19: when the overflowing node is the root, the split leaves a new root
\* holding only the promoted median with exactly two children, the old root
\* first and the new sibling second, and the tree is one level higher; no
\* add raises the height without such a split or by more than one, and no
\* remove raises it.
C19_RootSplit ==
    pc = "ready" =>
        \A v \in Values :
            /\ \A k \in 1..Len(SplitsOfAdd(v)) :
                  Last(SplitsOfAdd(v)[k].vl) = <<>>
                     => /\ SplitStep(SplitsOfAdd(v)[k]).root = RootAsClaimed(SplitsOfAdd(v)[k])
                        /\ Height(SplitStep(SplitsOfAdd(v)[k]).root)
                              = Height(SplitsOfAdd(v)[k].root) + 1
            /\ Height(add(root, n, v).root) > Height(root)
                  => /\ Height(add(root, n, v).root) = Height(root) + 1
                     /\ \E k \in 1..Len(SplitsOfAdd(v)) : Last(SplitsOfAdd(v)[k].vl) = <<>>
            /\ Height(remove(root, n, v).root) <= Height(root)

\* C20: when the node at position j of its parent's children is split, the
\* node stays at j, the new sibling is the child at j + 1 and the promoted
\* median is the parent's key at j, between the two.
C20_SiblingRightOfSplitNode ==
    pc = "ready" =>
        \A v \in Values :
            \A k \in 1..Len(SplitsOfAdd(v)) :
                LET s    == SplitsOfAdd(v)[k]
                    h    == SplitHalves(NodeAt(s.root, Last(s.vl)))
                    j    == Last(Last(s.vl))
                    par2 == NodeAt(SplitStep(s).root, s.vl[Len(s.vl) - 1])
                IN Last(s.vl) # <<>>
                      => /\ Len(par2.children) >= j + 1
                         /\ par2.children[j] = [h.curr EXCEPT !.num_list = Front(@)]
                         /\ par2.children[j + 1] = h.new
                         /\ par2.num_list[j] = Last(h.curr.num_list)

\* ------------------------------------------- the fix iterations of a remove
\* remove(v) finds v in the tree
Finds(v) == RemoveDescend(root, <<<<>>>>, v).exc = "none"

\* the node in which the descent of remove(v) ends, and its reference
FoundAt(v) == Last(RemoveDescend(root, <<<<>>>>, v).vl)
FoundIn(v) == NodeAt(root, FoundAt(v))

\* the tree and visited_list of remove(v) once the key has been taken out
RemoveKeyState(v) ==
    IF is_leaf(FoundIn(v)) THEN RemoveLeaf(root, RemoveDescend(root, <<<<>>>>, v).vl, v)
    ELSE RemoveInternal(root, RemoveDescend(root, <<<<>>>>, v).vl, v)

\* if len(visited_list[-1]) == 0 and self._n > 0
Rebalances(v) ==
    /\ Finds(v)
    /\ RemoveKeyState(v).exc = "none"
    /\ Len(NodeAt(RemoveKeyState(v).root, Last(RemoveKeyState(v).vl)).num_list) = 0
    /\ n - 1 > 0

\* while visited_list and len(visited_list[-1]) == 0
Underflows(s) ==
    s.exc = "none" /\ Len(s.vl) > 0 /\ Len(NodeAt(s.root, Last(s.vl)).num_list) = 0

\* the states in which the iterations of the fix loop start, in order; the
\* iteration that finds curr to be the root is the last
RECURSIVE FixStates(_)
FixStates(s) ==
    IF ~Underflows(s) THEN <<>>
    ELSE IF Last(s.vl) = <<>> THEN <<s>>
    ELSE <<s>> \o FixStates(FixStep(s))

\* the fix iterations remove(v) runs on the current tree
FixesOfRemove(v) ==
    IF Rebalances(v) THEN FixStates(Running(RemoveKeyState(v).root, RemoveKeyState(v).vl))
    ELSE <<>>

\* in the fix iteration started in s: the parent, the position of curr among
\* its children, and the parent once the iteration is over
FixPar(s) == NodeAt(s.root, s.vl[Len(s.vl) - 1])
FixPos(s) == Last(Last(s.vl))
FixParAfter(s) == NodeAt(FixStep(s).root, s.vl[Len(s.vl) - 1])

\* curr_index = parent.children.index(curr), counted from 1
FixIdx(s) == ListIndex(FixPar(s).children, FixPar(s).children[FixPos(s)]) + 1

\* the tests of the if and of the elif of the fix iteration started in s
LeftLends(s) == CanBorrowLeft(FixPar(s), FixIdx(s))
RightLends(s) == CanBorrowRight(FixPar(s), FixIdx(s))

\* what the fix iteration started in s has to do: replace an empty root,
\* borrow from the left sibling if it lends, else from the right one if it
\* lends, else merge
FixKind(s) ==
    IF Last(s.vl) = <<>> THEN "collapse"
    ELSE IF LeftLends(s) THEN "left"
    ELSE IF RightLends(s) THEN "right"
    ELSE "merge"

\* the number of nodes of t
NodeCount(t) == Cardinality(NodeRefs(t))

\* C21: when remove(item) finds item among the keys of an internal node, the
\* path handed on is the descent path followed by children[index of item]
\* and then the rightmost child at every level down to a leaf; the last key
\* of that leaf leaves the leaf and takes the place of one occurrence of
\* item in the internal node, whose number of keys stays; no other node
\* changes.
C21_InternalKeyReplaced ==
    pc = "ready" =>
        \A v \in Values :
            (Finds(v) /\ ~is_leaf(FoundIn(v))) =>
                LET p    == FoundAt(v)
                    i    == ListIndex(FoundIn(v).num_list, v) + 1
                    m    == RemoveKeyState(v)
                    lp   == Last(m.vl)
                    leaf == NodeAt(root, lp)
                    dvl  == RemoveDescend(root, <<<<>>>>, v).vl
                IN /\ m.exc = "none"
                   /\ Len(lp) > Len(p)
                   /\ SubSeq(lp, 1, Len(p)) = p
                   /\ lp[Len(p) + 1] = i
                   /\ \A j \in (Len(p) + 2)..Len(lp) :
                         lp[j] = Len(NodeAt(root, SubSeq(lp, 1, j - 1)).children)
                   /\ is_leaf(leaf)
                   /\ m.vl = dvl \o [j \in 1..(Len(lp) - Len(p)) |-> SubSeq(lp, 1, Len(p) + j)]
                   /\ NodeAt(m.root, lp).num_list = Front(leaf.num_list)
                   /\ NodeAt(m.root, p).num_list
                         = [FoundIn(v).num_list EXCEPT ![i] = Last(leaf.num_list)]
                   /\ NodeRefs(m.root) = NodeRefs(root)
                   /\ \A q \in NodeRefs(root) \ {p, lp} :
                         NodeAt(m.root, q).num_list = NodeAt(root, q).num_list

C21_Witness ==
    /\ pc = "ready"
    /\ Height(root) >= 3
    /\ \E v \in Values :
          /\ Finds(v)
          /\ FoundAt(v) = <<>>
          /\ Len(Last(RemoveKeyState(v).vl)) >= 2
          /\ Last(NodeAt(root, Last(RemoveKeyState(v).vl)).num_list) # v
          /\ RemoveKeyState(v).exc = "none"

\* no node of t holds zero keys, except the root when cnt is 0
NoEmptyIn(t, cnt) ==
    \A p \in NodeRefs(t) : Len(NodeAt(t, p).num_list) = 0 => (p = <<>> /\ cnt = 0)

\* C22: after every add and remove no node holds zero keys, except the root
\* of a tree whose count is 0; a remove that empties the last node of its
\* path returns normally and leaves no empty node, also when a merge
\* emptied the parent.
C22_NoEmptyNode ==
    pc = "ready" =>
        /\ NoEmptyIn(root, n)
        /\ \A v \in Values :
              Rebalances(v) =>
                  /\ remove(root, n, v).exc = "none"
                  /\ NoEmptyIn(remove(root, n, v).root, n - 1)

C22_Witness ==
    /\ pc = "ready"
    /\ \E v \in Values :
          /\ Len(FixesOfRemove(v)) = 2
          /\ FixKind(FixesOfRemove(v)[1]) = "merge"
          /\ FixKind(FixesOfRemove(v)[2]) = "collapse"
          /\ remove(root, n, v).exc = "none"
          /\ NoEmptyIn(remove(root, n, v).root, n - 1)

\* the fix iteration started in s merges a leaf and leaves its parent, which
\* is not the root, with zero keys
LeafMergeEmptiesParent(s) ==
    /\ FixKind(s) = "merge"
    /\ is_leaf(NodeAt(s.root, Last(s.vl)))
    /\ Len(Last(s.vl)) >= 2
    /\ FixStep(s).exc = "none"
    /\ Len(FixParAfter(s).num_list) = 0

\* C23: a single remove can merge at a leaf, leave the non-root parent with
\* zero keys and repair that parent in the same fix loop: whenever the first
\* fix iteration of a remove is such a merge, a second iteration follows at
\* the parent, it is a borrow or a merge, and the remove returns normally
\* with no empty node left.
C23_CascadeContinues ==
    pc = "ready" =>
        \A v \in Values :
            (Len(FixesOfRemove(v)) >= 1 /\ LeafMergeEmptiesParent(FixesOfRemove(v)[1])) =>
                /\ Len(FixesOfRemove(v)) >= 2
                /\ FixesOfRemove(v)[2].vl = Front(FixesOfRemove(v)[1].vl)
                /\ FixKind(FixesOfRemove(v)[2]) \in {"left", "right", "merge"}
                /\ remove(root, n, v).exc = "none"
                /\ NoEmptyIn(remove(root, n, v).root, n - 1)

C23_Witness ==
    /\ pc = "ready"
    /\ adds >= 1
    /\ \E v \in Values :
          /\ Len(FixesOfRemove(v)) >= 2
          /\ LeafMergeEmptiesParent(FixesOfRemove(v)[1])
          /\ FixKind(FixesOfRemove(v)[2]) \in {"left", "right", "merge"}
          /\ FixStep(FixesOfRemove(v)[2]).exc = "none"
          /\ remove(root, n, v).exc = "none"

\* the fix states of remove(v) that are not at the root
NonRootFixes(v) ==
    {k \in 1..Len(FixesOfRemove(v)) : FixKind(FixesOfRemove(v)[k]) # "collapse"}

\* the fix iteration started in s is a merge as described: curr_index is the
\* position of curr; neither adjacent sibling holds more than one key; the
\* sibling at si (the left one when there is one, else the right one) gets
\* the separator at ki, the parent loses that key and the child slot of
\* curr, the child curr had left goes to the sibling, which ends with two
\* keys
MergeAsClaimed(s) ==
    LET par == FixPar(s)
        a   == FixPos(s)
        cur == par.children[a]
        si  == IF a > 1 THEN a - 1 ELSE a + 1
        ki  == IF a > 1 THEN a - 1 ELSE a
        aft == FixParAfter(s)
        sj  == IF a > 1 THEN a - 1 ELSE a
    IN /\ FixIdx(s) = a
       /\ a > 1 => Len(par.children[a - 1].num_list) <= 1
       /\ a < Len(par.children) => Len(par.children[a + 1].num_list) <= 1
       /\ Len(par.children) >= 2
       /\ FixStep(s).exc = "none"
       /\ aft.num_list = ListPopAt(par.num_list, ki - 1)
       /\ Len(aft.children) = Len(par.children) - 1
       /\ \A j \in 1..Len(aft.children) :
             j # sj => aft.children[j] = par.children[IF j < a THEN j ELSE j + 1]
       /\ Len(aft.children[sj].num_list) = 2
       /\ Len(aft.children[sj].num_list) <= _b
       /\ Elements(aft.children[sj].num_list)
             = Elements(par.children[si].num_list \o <<par.num_list[ki]>>)
       /\ Len(cur.children) = IF is_leaf(par.children[si]) THEN 0 ELSE 1
       /\ Len(aft.children[sj].children) = Len(par.children[si].children) + Len(cur.children)
       /\ Elements(aft.children[sj].children)
             = Elements(par.children[si].children \o cur.children)

\* C24: a merge happens only when neither adjacent sibling of the empty node
\* holds more than one key; it moves exactly one separator from the parent
\* into the sibling (the left one when there is one, else the right one),
\* removes the child slot of the empty node from the parent, hands the empty
\* node's remaining child to the sibling, and the sibling ends with exactly
\* 2 keys, at most b.
C24_Merge ==
    pc = "ready" =>
        \A v \in Values :
            \A k \in NonRootFixes(v) :
                FixKind(FixesOfRemove(v)[k]) = "merge" => MergeAsClaimed(FixesOfRemove(v)[k])

C24_Witness ==
    /\ pc = "ready"
    /\ \E v \in Values :
          \E k \in NonRootFixes(v) :
              /\ FixKind(FixesOfRemove(v)[k]) = "merge"
              /\ FixPos(FixesOfRemove(v)[k]) = 1
              /\ ~is_leaf(NodeAt(FixesOfRemove(v)[k].root, Last(FixesOfRemove(v)[k].vl)))
              /\ MergeAsClaimed(FixesOfRemove(v)[k])

\* the fix iteration started in s is a borrow as described, from the sibling
\* at si through the separator at ki; fromEnd says the sibling gives its
\* last key and child (left sibling) rather than its first (right sibling)
BorrowAsClaimed(s, si, ki, fromEnd) ==
    LET par == FixPar(s)
        a   == FixPos(s)
        aft == FixParAfter(s)
        len == par.children[si]
    IN /\ FixIdx(s) = a
       /\ FixStep(s).exc = "none"
       /\ Len(aft.num_list) = Len(par.num_list)
       /\ Len(aft.children) = Len(par.children)
       /\ \A j \in 1..Len(par.children) :
             j \notin {a, si} => aft.children[j] = par.children[j]
       /\ aft.children[si].num_list
             = IF fromEnd THEN Front(len.num_list) ELSE Tail(len.num_list)
       /\ aft.children[a].num_list = <<par.num_list[ki]>>
       /\ \E j \in 1..Len(aft.num_list) :
             /\ aft.num_list[j] = IF fromEnd THEN Last(len.num_list) ELSE Head(len.num_list)
             /\ ListPopAt(aft.num_list, j - 1) = ListPopAt(par.num_list, ki - 1)
       /\ is_leaf(len) =>
             /\ aft.children[a].children = par.children[a].children
             /\ aft.children[si].children = len.children
       /\ ~is_leaf(len) =>
             /\ aft.children[si].children
                   = IF fromEnd THEN Front(len.children) ELSE Tail(len.children)
             /\ Len(aft.children[a].children) = Len(par.children[a].children) + 1
             /\ Len(aft.children[a].children) = 2
             /\ Elements(aft.children[a].children)
                   = Elements(par.children[a].children)
                       \cup {IF fromEnd THEN Last(len.children) ELSE Head(len.children)}

\* C25: a borrow is taken from the left sibling when it holds more than one
\* key, and from the right sibling only when the left one is absent or holds
\* at most one key; the parent keeps its numbers of keys and children, the
\* lending sibling loses exactly its largest (left) or smallest (right) key,
\* the formerly empty node ends with exactly the old separator, and between
\* internal nodes exactly one child moves, from the adjacent end of the
\* sibling.
C25_Borrow ==
    pc = "ready" =>
        \A v \in Values :
            \A k \in NonRootFixes(v) :
                LET s == FixesOfRemove(v)[k]
                IN /\ (FixPos(s) > 1 /\ Len(FixPar(s).children[FixPos(s) - 1].num_list) > 1)
                       => FixKind(s) = "left"
                   /\ FixKind(s) = "left" =>
                         BorrowAsClaimed(s, FixPos(s) - 1, FixPos(s) - 1, TRUE)
                   /\ FixKind(s) = "right" =>
                         /\ FixPos(s) = 1 \/ Len(FixPar(s).children[FixPos(s) - 1].num_list) <= 1
                         /\ Len(FixPar(s).children[FixPos(s) + 1].num_list) > 1
                         /\ BorrowAsClaimed(s, FixPos(s) + 1, FixPos(s), FALSE)

C25_Witness ==
    /\ pc = "ready"
    /\ \E v \in Values :
          \E k \in NonRootFixes(v) :
              /\ FixKind(FixesOfRemove(v)[k]) = "left"
              /\ ~is_leaf(NodeAt(FixesOfRemove(v)[k].root, Last(FixesOfRemove(v)[k].vl)))
              /\ BorrowAsClaimed(FixesOfRemove(v)[k], FixPos(FixesOfRemove(v)[k]) - 1,
                                 FixPos(FixesOfRemove(v)[k]) - 1, TRUE)

\* remove(v) ends with the fix loop at a root with zero keys
Collapses(v) ==
    /\ Len(FixesOfRemove(v)) >= 1
    /\ FixKind(Last(FixesOfRemove(v))) = "collapse"

\* C26: when the fix loop reaches a root with zero keys, that root has one
\* child, the child becomes the root as it is and the remove returns; the
\* height is then one less than before the remove. Every other remove that
\* returns normally and every add leave the height as it was or, for add,
\* larger.
C26_RootCollapse ==
    pc = "ready" =>
        \A v \in Values :
            /\ Collapses(v) =>
                  /\ n - 1 > 0
                  /\ Len(Last(FixesOfRemove(v)).root.children) = 1
                  /\ \A k \in 1..(Len(FixesOfRemove(v)) - 1) :
                        FixKind(FixesOfRemove(v)[k]) # "collapse"
                  /\ remove(root, n, v).exc = "none"
                  /\ remove(root, n, v).root = Last(FixesOfRemove(v)).root.children[1]
                  /\ Height(Last(FixesOfRemove(v)).root) = Height(root)
                  /\ Height(remove(root, n, v).root) = Height(root) - 1
            /\ (~Collapses(v) /\ remove(root, n, v).exc = "none") =>
                  Height(remove(root, n, v).root) = Height(root)
            /\ remove(root, n, v).exc # "none" => remove(root, n, v).root = root
            /\ Height(add(root, n, v).root) >= Height(root)

C26_Witness ==
    /\ pc = "ready"
    /\ Height(root) >= 3
    /\ \E v \in Values :
          /\ Collapses(v)
          /\ Len(FixesOfRemove(v)) = 3
          /\ Height(remove(root, n, v).root) = Height(root) - 1

\* how many split iterations of add(v) split the root, and how many fix
\* iterations of remove(v) are of the kinds in ks
RootSplits(v) ==
    Cardinality({k \in 1..Len(SplitsOfAdd(v)) : Last(SplitsOfAdd(v)[k].vl) = <<>>})
FixesOfKind(v, ks) ==
    Cardinality({k \in 1..Len(FixesOfRemove(v)) : FixKind(FixesOfRemove(v)[k]) \in ks})

\* the leaf add(v) descends to
AddLeaf(v) == Last(AddDescend(root, <<<<>>>>, v).vl)

\* C27: add makes the tree larger by one node per split iteration plus one
\* when the root is split, and an add that does not overflow its leaf changes
\* only that leaf's keys and the count; remove makes the tree smaller by one
\* node per merge and one per root collapse, a remove that does not empty
\* the last node of its path keeps every node, and neither call changes the
\* number of nodes in the other direction.
C27_NodesCreatedAndDiscarded ==
    pc = "ready" =>
        \A v \in Values :
            /\ add(root, n, v).exc = "none"
            /\ NodeCount(add(root, n, v).root)
                  = NodeCount(root) + Len(SplitsOfAdd(v)) + RootSplits(v)
            /\ RootSplits(v) <= 1
            /\ Len(SplitsOfAdd(v)) = 0 =>
                  /\ add(root, n, v).n = n + 1
                  /\ NodeRefs(add(root, n, v).root) = NodeRefs(root)
                  /\ \A p \in NodeRefs(root) \ {AddLeaf(v)} :
                        NodeAt(add(root, n, v).root, p).num_list = NodeAt(root, p).num_list
                  /\ Len(NodeAt(add(root, n, v).root, AddLeaf(v)).num_list)
                        = Len(NodeAt(root, AddLeaf(v)).num_list) + 1
            /\ remove(root, n, v).exc = "none" =>
                  /\ NodeCount(remove(root, n, v).root)
                        = NodeCount(root) - FixesOfKind(v, {"merge"}) - FixesOfKind(v, {"collapse"})
                  /\ ~Rebalances(v) =>
                        /\ Len(FixesOfRemove(v)) = 0
                        /\ NodeRefs(remove(root, n, v).root) = NodeRefs(root)
                        /\ remove(root, n, v).root = RemoveKeyState(v).root
            /\ remove(root, n, v).exc # "none" =>
                  /\ ~Finds(v)
                  /\ remove(root, n, v).root = root

C27_Witness ==
    /\ pc = "ready"
    /\ \E v, w \in Values :
          /\ Len(SplitsOfAdd(v)) = 2
          /\ RootSplits(v) = 1
          /\ NodeCount(add(root, n, v).root) = NodeCount(root) + 3
          /\ FixesOfKind(w, {"merge"}) >= 1
          /\ NodeCount(remove(root, n, w).root) < NodeCount(root)

\* the visited_list of add(v) and of remove(v) when the loops start
AddPath(v) == AddDescend(root, <<<<>>>>, v).vl
RemovePath(v) == RemoveKeyState(v).vl

\* C28: every add and every remove ends: each iteration of the split loop
\* and each iteration of the fix loop that does not return takes exactly the
\* last node off the visited path, the next iteration starts in the state
\* the one before left, and neither loop runs more iterations than the path
\* has nodes, which is the number of levels of the tree (its height in edges
\* plus one).
C28_LoopsBounded ==
    pc = "ready" =>
        \A v \in Values :
            /\ add(root, n, v).exc = "none"
            /\ Len(AddPath(v)) = Height(root)
            /\ Len(SplitsOfAdd(v)) <= Len(AddPath(v))
            /\ \A k \in 1..Len(SplitsOfAdd(v)) :
                  /\ Len(SplitsOfAdd(v)[k].vl) = Len(AddPath(v)) - (k - 1)
                  /\ SplitStep(SplitsOfAdd(v)[k]).vl = Front(SplitsOfAdd(v)[k].vl)
                  /\ k < Len(SplitsOfAdd(v)) =>
                        SplitsOfAdd(v)[k + 1] = SplitStep(SplitsOfAdd(v)[k])
            /\ remove(root, n, v).exc \in {"none", "ItemNotFound"}
            /\ Finds(v) =>
                  /\ Len(RemovePath(v)) <= Height(root)
                  /\ Len(FixesOfRemove(v)) <= Len(RemovePath(v))
                  /\ \A k \in 1..Len(FixesOfRemove(v)) :
                        /\ Len(FixesOfRemove(v)[k].vl) = Len(RemovePath(v)) - (k - 1)
                        /\ FixKind(FixesOfRemove(v)[k]) # "collapse" =>
                              FixStep(FixesOfRemove(v)[k]).vl = Front(FixesOfRemove(v)[k].vl)
                        /\ FixKind(FixesOfRemove(v)[k]) = "collapse" =>
                              k = Len(FixesOfRemove(v))
                        /\ k < Len(FixesOfRemove(v)) =>
                              FixesOfRemove(v)[k + 1] = FixStep(FixesOfRemove(v)[k])

C28_Witness ==
    /\ pc = "ready"
    /\ Height(root) = 3
    /\ \E v, w \in Values :
          /\ Len(AddPath(v)) = Height(root)
          /\ Len(SplitsOfAdd(v)) = 0
          /\ Len(RemovePath(w)) = Height(root)
          /\ Len(FixesOfRemove(w)) = Len(RemovePath(w))

\* C29: a traversal started on the tree and run with no add or remove in
\* between returns exactly len() items, every stored item as often as it is
\* stored, has then met every node of the tree, and signals the end of the
\* iteration at that call and at the next; on an empty tree the first call
\* signals the end.
C29_TraversalComplete ==
    pc = "ready" =>
        /\ Len(Iterate(root)) = n
        /\ \A v \in Values : Occurrences(Iterate(root), v) = bag[v]
        /\ n = 0 => next(root, iter(root)).stop
        /\ DrainEnd(root, iter(root)).stack = <<>>
        /\ DrainEnd(root, iter(root)).discovered = NodeRefs(root)
        /\ next(root, DrainEnd(root, iter(root))).stop

C29_Witness ==
    /\ pc = "ready"
    /\ Height(root) >= 3
    /\ removes >= 1
    /\ \A v \in Values : bag[v] >= 2
    /\ Len(Iterate(root)) = n
    /\ Cardinality(DrainEnd(root, iter(root)).discovered) >= 7

\* the two exceptions _rebalance raises on its own checks
InternalChecks == {"RootMismatch", "ParentRatio"}

\* the parent the split iteration started in s leaves: the new root when
\* curr was the root, else the node before curr on the path
SplitParAfter(s) ==
    IF Last(s.vl) = <<>> THEN SplitStep(s).root
    ELSE NodeAt(SplitStep(s).root, s.vl[Len(s.vl) - 1])

\* C30: no sequence of add and remove calls triggers the checks of
\* _rebalance: no call has ended and none can end in one of the two
\* exceptions, the path handed to _rebalance starts at the root of the tree,
\* and after each split iteration the parent has one more child than keys.
C30_InternalChecksSilent ==
    pc = "ready" =>
        /\ err \notin InternalChecks
        /\ \A v \in Values :
              /\ add(root, n, v).exc \notin InternalChecks
              /\ remove(root, n, v).exc \notin InternalChecks
              /\ AddPath(v)[1] = <<>>
              /\ Finds(v) => RemovePath(v)[1] = <<>>
              /\ rebalance(AddLeafState(root, v).root, AddPath(v)).exc = "none"
              /\ Rebalances(v) =>
                    rebalance(RemoveKeyState(v).root, RemovePath(v)).exc = "none"
              /\ \A k \in 1..Len(SplitsOfAdd(v)) :
                    /\ SplitStep(SplitsOfAdd(v)[k]).exc = "none"
                    /\ Len(SplitParAfter(SplitsOfAdd(v)[k]).children)
                          = Len(SplitParAfter(SplitsOfAdd(v)[k]).num_list) + 1

C30_Witness ==
    /\ pc = "ready"
    /\ err = "none"
    /\ removes >= 1
    /\ \E v, w \in Values :
          /\ Len(SplitsOfAdd(v)) = 2
          /\ rebalance(AddLeafState(root, v).root, AddPath(v)).exc = "none"
          /\ Rebalances(w)
          /\ rebalance(RemoveKeyState(w).root, RemovePath(w)).exc = "none"

====
